---- MODULE Spec2Model ----
(***************************************************************************)
(* Model of dashboard/server.py: the WebSocket ConnectionManager, the      *)
(* per-connection loop of websocket_endpoint, and the task handlers        *)
(* (create_task, update_task, move_task, delete_task and the project       *)
(* handlers) with their flush / broadcast sequencing.                      *)
(*                                                                         *)
(* The server runs on one asyncio event loop: code between two awaits is   *)
(* atomic, and every await of a transport operation (accept, send_json,    *)
(* receive_text) is a point where another coroutine may run.  Every action *)
(* below is one such atomic segment.                                       *)
(***************************************************************************)
EXTENDS Integers, Sequences, FiniteSets, TLC

\* ---- bounds of the model ------------------------------------------------
MaxBroadcasts == 2   \* broadcast calls thread 1 issues, one after the other
MaxInbound == 1      \* receive_text results (texts and timeouts) one loop handles
MaxTasks == 1        \* task ids
MaxTime == 2         \* clock values 1..MaxTime
MaxRegistered == 2   \* length of the list when connect is called directly

\* Two websocket connections are opened: enough for a connection to stand
\* before or after the one a broadcast is sending to.
Conns == {1, 2}

\* Two threads of control call broadcast: thread 1 issues up to MaxBroadcasts
\* calls one after the other, thread 2 one call that may overlap them.
Threads == {1, 2}
Quota(h) == IF h = 1 THEN MaxBroadcasts ELSE 1

VARIABLES
    active_connections, \* ConnectionManager.active_connections, a Python list
    wsPc,               \* position of each websocket_endpoint coroutine
    sent,               \* per connection: the messages its send_json delivered
    gone,               \* per connection: a send_json on it has raised
    bc,                 \* per thread: the frame of its ConnectionManager.broadcast call
    issued,             \* per thread: number of broadcast calls it has made
    inbound,            \* per connection: receive_text results handled so far
    ended,              \* per connection: how many times websocket_endpoint returned
    lastDone,           \* the survivors of the last broadcast that ran undisturbed
    report,             \* the frame of the broadcast call that has just returned
    tasks,              \* the stored Task rows
    projects,           \* the stored Project ids
    now,                \* datetime.now()
    req,                \* the request handler in flight and its session
    lastOp              \* how the last request ended and how many broadcasts it made

wsVars == <<active_connections, wsPc, sent, gone, bc, issued, inbound, ended, lastDone, report>>
dbVars == <<tasks, projects, now, req, lastOp>>
vars == <<active_connections, wsPc, sent, gone, bc, issued, inbound, ended, lastDone, report,
          tasks, projects, now, req, lastOp>>

Range(s) == {s[i] : i \in 1..Len(s)}

\* ---- ConnectionManager --------------------------------------------------

\* list.remove(x): drops the first occurrence of x
RECURSIVE ListRemove(_, _)
ListRemove(list, x) ==
    IF list = <<>> THEN <<>>
    ELSE IF Head(list) = x THEN Tail(list)
    ELSE <<Head(list)>> \o ListRemove(Tail(list), x)

DisconnectKeeps(list, ws) == list

DisconnectLast(list, ws) ==
    IF list = <<>> THEN list ELSE SubSeq(list, 1, Len(list) - 1)

\* ConnectionManager.disconnect: remove the socket if it is in the list
Disconnect(list, ws) ==
    IF ws \in Range(list) THEN ListRemove(list, ws) ELSE list

\* the clean-up loop of broadcast: for conn in disconnected: self.disconnect(conn)
RECURSIVE DisconnectAll(_, _)
DisconnectAll(list, disconnected) ==
    IF disconnected = <<>> THEN list
    ELSE DisconnectAll(Disconnect(list, Head(disconnected)), Tail(disconnected))

DeliverFirst(log, message) == <<message>> \o log

\* the connection's outgoing stream after an awaited send_json that succeeded
Deliver(log, message) == Append(log, message)

SendJsonAll(c, message, ok) ==
    /\ gone[c] => ~ok
    /\ sent' = IF ok THEN [d \in Conns |-> Deliver(sent[d], message)] ELSE sent
    /\ gone' = IF ok THEN gone ELSE [gone EXCEPT ![c] = TRUE]

\* websocket.send_json(message) on connection c returns (ok) or raises.  A
\* send that raised means the client is gone: every later send to it raises.
SendJson(c, message, ok) ==
    /\ gone[c] => ~ok
    /\ sent' = IF ok THEN [sent EXCEPT ![c] = Deliver(@, message)] ELSE sent
    /\ gone' = IF ok THEN gone ELSE [gone EXCEPT ![c] = TRUE]

NoFollow == [valid |-> FALSE, survivors |-> {}, dropped |-> {}]
NoMessage == [type |-> "none"]

\* The frame of one broadcast call.  idx is the position of the list iterator
\* of "for connection in self.active_connections" (the number of elements it
\* has yielded), cur the connection whose send_json is awaited, disconnected
\* the local list of that name.  The other fields record the run: the list at
\* the call, the sends attempted, the sends that raised, the connections of
\* the start list that stayed registered throughout, whether the list was
\* changed by anyone else during the iteration, and the survivors of the
\* preceding undisturbed broadcast when the list was untouched since.  The
\* frame of a call that returned is to be seen in report until the next step.
IdleFrame ==
    [pc |-> "idle", ev |-> NoMessage, idx |-> 0, cur |-> 0, disconnected |-> <<>>,
     start |-> <<>>, attempted |-> <<>>, failed |-> {}, stable |-> {},
     interfered |-> FALSE, follow |-> NoFollow]

NewFrame(message) ==
    [IdleFrame EXCEPT !.ev = message, !.start = active_connections,
                      !.stable = Range(active_connections), !.follow = lastDone]

\* the list iterator has another element: its index is below the list's
\* length now (the list may have shrunk or grown since the call)
IterHasNext(frame, list) == frame.idx < Len(list)

\* the list after the for loop went on: unchanged while it iterates, and with
\* the failed connections removed once the iterator is exhausted
ListAfter(frame, list) ==
    IF IterHasNext(frame, list) THEN list
    ELSE DisconnectAll(list, frame.disconnected)

\* the frame after the for loop went on: suspended in the send to the next
\* element, or returned
FrameAfter(frame, list) ==
    IF IterHasNext(frame, list)
    THEN [frame EXCEPT !.pc = "send", !.cur = list[frame.idx + 1],
                       !.idx = frame.idx + 1,
                       !.attempted = Append(@, list[frame.idx + 1])]
    ELSE [frame EXCEPT !.pc = "done", !.cur = 0]

\* what a suspended broadcast of another thread records of a change of the list
Observe(frame, old, new) ==
    IF frame.pc = "send" /\ old # new
    THEN [frame EXCEPT !.interfered = TRUE, !.stable = @ \cap Range(new)]
    ELSE frame

\* a coroutine other than a broadcast sets the list to new
SetConnections(new) ==
    /\ active_connections' = new
    /\ report' = IdleFrame
    /\ bc' = [g \in Threads |-> Observe(bc[g], active_connections, new)]
    /\ lastDone' = IF new # active_connections THEN NoFollow ELSE lastDone

\* thread h's broadcast, in frame, runs up to its next await or its return
BroadcastRun(h, frame) ==
    LET list == active_connections
        f1 == FrameAfter(frame, list)
        l1 == ListAfter(frame, list)
    IN /\ active_connections' = l1
       /\ bc' = [g \in Threads |->
                   IF g = h THEN (IF f1.pc = "done" THEN IdleFrame ELSE f1)
                   ELSE Observe(bc[g], list, l1)]
       /\ report' = IF f1.pc = "done" THEN f1 ELSE IdleFrame
       /\ lastDone' = IF f1.pc = "done" /\ ~f1.interfered
                      THEN [valid |-> TRUE, survivors |-> Range(f1.start) \ f1.failed,
                            dropped |-> f1.failed]
                      ELSE IF l1 # list THEN NoFollow ELSE lastDone

\* ConnectionManager.broadcast is called: up to the first await of send_json
Broadcast(h, message) ==
    /\ bc[h].pc = "idle"
    /\ BroadcastRun(h, NewFrame(message))

AckWrittenAnyOrder(c) == TRUE

\* The transport writes the messages of one connection in the order of the
\* send_json calls.  The send_json of the acknowledgement is called in the
\* step that registers the connection, with no await between the append and
\* the call, so it precedes every send_json a broadcast makes on it: such a
\* send does not return while that of the acknowledgement is pending.
AckWritten(c) == wsPc[c] # "ack"

\* the awaited send_json of thread h's broadcast returns (ok) or raises, and
\* the loop goes on to the next element or to the clean-up
BroadcastSendDone(h, ok) ==
    /\ bc[h].pc = "send"
    /\ AckWritten(bc[h].cur)
    /\ SendJson(bc[h].cur, bc[h].ev, ok)
    /\ BroadcastRun(h, IF ok THEN bc[h]
                       ELSE [bc[h] EXCEPT !.disconnected = Append(@, bc[h].cur),
                                          !.failed = @ \cup {bc[h].cur}])
    /\ UNCHANGED <<wsPc, issued, inbound, ended>>

\* a request-handling thread calls manager.broadcast with its next event
Dispatch(h) ==
    /\ issued[h] < Quota(h)
    /\ Broadcast(h, [type |-> "event", h |-> h, k |-> issued[h] + 1])
    /\ issued' = [issued EXCEPT ![h] = @ + 1]
    /\ UNCHANGED <<wsPc, sent, gone, inbound, ended>>

\* ConnectionManager.connect called by any holder of the manager, with any
\* socket: accept returns and the socket is appended, or accept raises and
\* the exception leaves connect before the append
ManagerConnect(c, ok) ==
    /\ Len(active_connections) < MaxRegistered
    /\ IF ok
       THEN SetConnections(Append(active_connections, c))
       ELSE /\ report' = IdleFrame
            /\ UNCHANGED <<active_connections, bc, lastDone>>
    /\ UNCHANGED <<wsPc, sent, gone, issued, inbound, ended>>

\* ConnectionManager.disconnect called by any holder of the manager
ManagerDisconnect(c) ==
    /\ SetConnections(Disconnect(active_connections, c))
    /\ UNCHANGED <<wsPc, sent, gone, issued, inbound, ended>>

\* ---- websocket_endpoint -------------------------------------------------

\* inbound texts: one per path of the message handling
Inbound == {"{type:ping}", "{type:subscribe}", "{type:other}", "{}", "[]", "not json"}

\* json.loads(data) returns (it raises JSONDecodeError otherwise)
IsJson(text) == text # "not json"

\* the parsed value is a dict, so that message.get exists
IsObject(text) == text \in {"{type:ping}", "{type:subscribe}", "{type:other}", "{}"}

\* message.get("type")
TypeOf(text) ==
    CASE text = "{type:ping}" -> "ping"
      [] text = "{type:subscribe}" -> "subscribe"
      [] text = "{type:other}" -> "other"
      [] OTHER -> "None"

Reply(type) == [type |-> type]

PendingConnected(pc) == Reply("connected")

\* the server-to-client message whose send_personal is awaited at a position
Pending(pc) == IF pc = "ack" THEN Reply("connected") ELSE Reply(pc)

Sending == {"ack", "pong", "subscribed", "ping"}

EndpointExitLeaves(c) ==
    /\ SetConnections(active_connections)
    /\ wsPc' = [wsPc EXCEPT ![c] = "ended"]
    /\ ended' = [ended EXCEPT ![c] = @ + 1]

\* the handler leaves through one of its two except clauses
EndpointExit(c) ==
    /\ SetConnections(Disconnect(active_connections, c))
    /\ wsPc' = [wsPc EXCEPT ![c] = "ended"]
    /\ ended' = [ended EXCEPT ![c] = @ + 1]

\* manager.connect: accept returns and the socket is appended; the handler
\* goes on into send_personal(connected) and is suspended in its send_json.
\* Connections are numbered in the order in which their accept returns.
Connect(c) ==
    /\ wsPc[c] = "new"
    /\ \A d \in Conns : d < c => wsPc[d] # "new"
    /\ SetConnections(Append(active_connections, c))
    /\ wsPc' = [wsPc EXCEPT ![c] = "ack"]
    /\ UNCHANGED <<sent, gone, issued, inbound, ended>>

\* websocket.accept raises: the exception leaves the handler before the try
ConnectRefused(c) ==
    /\ wsPc[c] = "new"
    /\ \A d \in Conns : d < c => wsPc[d] # "new"
    /\ wsPc' = [wsPc EXCEPT ![c] = "refused"]
    /\ report' = IdleFrame
    /\ UNCHANGED <<active_connections, bc, lastDone, sent, gone, issued, inbound, ended>>

\* ConnectionManager.send_personal: the awaited send_json returns (ok) or
\* raises; the exception is caught, the socket removed, and the handler goes
\* on to the next receive_text
SendPersonalDone(c, ok) ==
    /\ wsPc[c] \in Sending
    /\ SendJson(c, Pending(wsPc[c]), ok)
    /\ SetConnections(IF ok THEN active_connections
                      ELSE Disconnect(active_connections, c))
    /\ wsPc' = [wsPc EXCEPT ![c] = "recv"]
    /\ UNCHANGED <<issued, inbound, ended>>

\* receive_text returns text within the timeout
ReceiveText(c, text) ==
    /\ wsPc[c] = "recv"
    /\ ~gone[c]
    /\ inbound[c] < MaxInbound
    /\ inbound' = [inbound EXCEPT ![c] = @ + 1]
    /\ IF ~IsJson(text)
       THEN \* JSONDecodeError is caught inside the loop
            /\ report' = IdleFrame
            /\ UNCHANGED <<active_connections, bc, lastDone, wsPc, ended>>
       ELSE IF ~IsObject(text)
       THEN \* message.get raises AttributeError: the outer except Exception
            EndpointExit(c)
       ELSE /\ wsPc' = [wsPc EXCEPT ![c] =
                          CASE TypeOf(text) = "ping" -> "pong"
                            [] TypeOf(text) = "subscribe" -> "subscribed"
                            [] OTHER -> "recv"]
            /\ report' = IdleFrame
            /\ UNCHANGED <<active_connections, bc, lastDone, ended>>
    /\ UNCHANGED <<sent, gone, issued>>

\* asyncio.wait_for raises TimeoutError: the keepalive ping is sent
ReceiveTimeout(c) ==
    /\ wsPc[c] = "recv"
    /\ inbound[c] < MaxInbound
    /\ inbound' = [inbound EXCEPT ![c] = @ + 1]
    /\ wsPc' = [wsPc EXCEPT ![c] = "ping"]
    /\ report' = IdleFrame
    /\ UNCHANGED <<active_connections, bc, lastDone, sent, gone, issued, ended>>

\* receive_text raises WebSocketDisconnect (the client closed) or another
\* exception (a transport error)
ReceiveRaises(c, exc) ==
    /\ wsPc[c] = "recv"
    /\ exc \in {"WebSocketDisconnect", "Exception"}
    /\ EndpointExit(c)
    /\ UNCHANGED <<sent, gone, issued, inbound>>

InitWs ==
    /\ active_connections = <<>>
    /\ wsPc = [c \in Conns |-> "new"]
    /\ sent = [c \in Conns |-> <<>>]
    /\ gone = [c \in Conns |-> FALSE]
    /\ bc = [h \in Threads |-> IdleFrame]
    /\ issued = [h \in Threads |-> 0]
    /\ inbound = [c \in Conns |-> 0]
    /\ ended = [c \in Conns |-> 0]
    /\ lastDone = NoFollow
    /\ report = IdleFrame

\* ---- the request handlers -----------------------------------------------

TaskIds == 1..MaxTasks
\* Where completed_at and persistence are looked at, the requests name one
\* project and one title; where the payload of task_moved and the project of
\* a parent are looked at, two of each.
ProjectIds == {1}
BothProjects == {1, 2}
Positions == {0, 1}
Titles == {"a", "b"}
OneTitle == {"a"}
Statuses == {"pending", "in_progress", "done"}
DONE == "done"
Null == 0
Unset == "unset"          \* status is not in update_data
NoPosition == 0 - 1       \* position is not in update_data
NoParent == 0 - 1         \* parent_task_id is None

\* the parent ids a client may declare: none, 0, a task id, an id beyond them
Parents == {NoParent} \cup (0..(MaxTasks + 1))

NoRow == [project_id |-> 0, title |-> "", status |-> "absent", position |-> 0,
          completed_at |-> Null]
NoOp == [op |-> "none", id |-> 0, outcome |-> "none", broadcasts |-> 0]
NoReq == [op |-> "none", id |-> 0, pc |-> "idle", obj |-> NoRow, old |-> NoRow,
          status |-> Unset, position |-> NoPosition, parent |-> NoParent, time |-> 0,
          flushed |-> FALSE, events |-> <<>>]

MoveCompletedAtAlways(old_status, new_status, completed_at, t) ==
    IF new_status = DONE THEN t ELSE Null

\* move_task: task.completed_at after the if / elif on move.status
MoveCompletedAt(old_status, new_status, completed_at, t) ==
    IF new_status = DONE /\ old_status # DONE THEN t
    ELSE IF new_status # DONE THEN Null
    ELSE completed_at

\* update_task: completed_at after update_data was applied; it is among the
\* assigned fields only when "status" is in update_data and is DONE
UpdateCompletedAt(new_status, completed_at, t) ==
    IF new_status # Unset /\ new_status = DONE THEN t ELSE completed_at

\* the fields update_task assigns with setattr
UpdatedRow(row, new_title, new_status, new_position, t) ==
    [row EXCEPT !.title = IF new_title = Unset THEN @ ELSE new_title,
                !.status = IF new_status = Unset THEN @ ELSE new_status,
                !.position = IF new_position = NoPosition THEN @ ELSE new_position,
                !.completed_at = UpdateCompletedAt(new_status, @, t)]

\* the fields move_task assigns
MovedRow(row, new_status, new_position, t) ==
    [row EXCEPT !.status = new_status,
                !.position = new_position,
                !.completed_at = MoveCompletedAt(row.status, new_status, @, t)]

EventOfStored(r) ==
    [type |-> "task_moved", id |-> r.id, project_id |-> r.obj.project_id,
     title |-> r.obj.title, old_status |-> r.obj.status,
     new_status |-> r.obj.status, position |-> r.obj.position]

\* the message a handler passes to manager.broadcast
EventOf(r) ==
    CASE r.op = "move_task" ->
           [type |-> "task_moved", id |-> r.id, project_id |-> r.obj.project_id,
            title |-> r.obj.title, old_status |-> r.old.status,
            new_status |-> r.obj.status, position |-> r.obj.position]
      [] r.op \in {"create_task", "update_task"} ->
           [type |-> IF r.op = "create_task" THEN "task_created" ELSE "task_updated",
            id |-> r.id, project_id |-> r.obj.project_id, title |-> r.obj.title,
            status |-> r.obj.status]
      [] r.op = "delete_task" ->
           [type |-> "task_deleted", id |-> r.id, project_id |-> r.old.project_id]
      [] r.op = "create_project" -> [type |-> "project_created", id |-> r.id]
      [] r.op = "update_project" -> [type |-> "project_updated", id |-> r.id]
      [] OTHER -> [type |-> "project_deleted", id |-> r.id]

\* a handler raises HTTPException before it touched the session
Rejected(op, id, code) ==
    /\ lastOp' = [NoOp EXCEPT !.op = op, !.id = id, !.outcome = code]
    /\ UNCHANGED <<tasks, projects, req>>

\* a handler changed objects of its session and goes on to its next await
ProceedWith(op, id, old, obj, status, position, parent, pc) ==
    /\ req' = [NoReq EXCEPT !.op = op, !.id = id, !.pc = pc, !.obj = obj, !.old = old,
                            !.status = status, !.position = position,
                            !.parent = parent, !.time = now]
    /\ lastOp' = NoOp
    /\ UNCHANGED <<tasks, projects>>

Proceed(op, id, old, obj, status, position, pc) ==
    ProceedWith(op, id, old, obj, status, position, NoParent, pc)

\* "if task.parent_task_id:" is true: the id is neither None nor 0
ParentGiven(parent) == parent # NoParent /\ parent # 0

\* the select of the parent returns a row: a task of that id, of the project
ParentFound(parent, project_id) ==
    /\ parent \in TaskIds
    /\ tasks[parent] # NoRow
    /\ tasks[parent].project_id = project_id

\* create_task, up to db.flush; the id is the one the flush will assign
CreateTask(id, project_id, parent, title, status, position) ==
    /\ req.pc = "idle"
    /\ IF project_id \notin projects
       THEN Rejected("create_task", 0, "404")
       ELSE IF ParentGiven(parent) /\ ~ParentFound(parent, project_id)
       THEN Rejected("create_task", 0, "400")
       ELSE /\ tasks[id] = NoRow
            /\ \A t \in TaskIds : t < id => tasks[t] # NoRow
            /\ ProceedWith("create_task", id, NoRow,
                           [project_id |-> project_id, title |-> title,
                            status |-> status, position |-> position,
                            completed_at |-> Null],
                           status, position, parent, "flush")
    /\ UNCHANGED <<now>>

\* update_task, up to db.flush
UpdateTask(id, title, status, position) ==
    /\ req.pc = "idle"
    /\ IF tasks[id] = NoRow
       THEN Rejected("update_task", id, "404")
       ELSE Proceed("update_task", id, tasks[id],
                    UpdatedRow(tasks[id], title, status, position, now),
                    status, position, "flush")
    /\ UNCHANGED <<now>>

MoveTaskUnchecked(id, status, position) ==
    /\ req.pc = "idle"
    /\ Proceed("move_task", id, tasks[id],
               MovedRow(tasks[id], status, position, now),
               status, position, "flush")
    /\ UNCHANGED <<now>>

\* move_task, up to db.flush
MoveTask(id, status, position) ==
    /\ req.pc = "idle"
    /\ IF tasks[id] = NoRow
       THEN Rejected("move_task", id, "404")
       ELSE Proceed("move_task", id, tasks[id],
                    MovedRow(tasks[id], status, position, now),
                    status, position, "flush")
    /\ UNCHANGED <<now>>

\* delete_task, up to manager.broadcast: db.delete marks the row in the
\* session, nothing is flushed
DeleteTask(id) ==
    /\ req.pc = "idle"
    /\ IF tasks[id] = NoRow
       THEN Rejected("delete_task", id, "404")
       ELSE Proceed("delete_task", id, tasks[id], NoRow, Unset, NoPosition, "broadcast")
    /\ UNCHANGED <<now>>

\* create_project, up to db.flush
CreateProject(id) ==
    /\ req.pc = "idle"
    /\ id \notin projects
    /\ Proceed("create_project", id, NoRow, NoRow, Unset, NoPosition, "flush")
    /\ UNCHANGED <<now>>

\* update_project, up to db.flush
UpdateProject(id) ==
    /\ req.pc = "idle"
    /\ IF id \notin projects
       THEN Rejected("update_project", id, "404")
       ELSE Proceed("update_project", id, NoRow, NoRow, Unset, NoPosition, "flush")
    /\ UNCHANGED <<now>>

\* delete_project, up to manager.broadcast: db.delete, no flush
DeleteProject(id) ==
    /\ req.pc = "idle"
    /\ IF id \notin projects
       THEN Rejected("delete_project", id, "404")
       ELSE Proceed("delete_project", id, NoRow, NoRow, Unset, NoPosition, "broadcast")
    /\ UNCHANGED <<now>>

\* the store after the session's pending changes were written
Stored(r) ==
    CASE r.op \in {"create_task", "update_task", "move_task"} ->
           [tasks EXCEPT ![r.id] = r.obj]
      [] r.op = "delete_task" -> [tasks EXCEPT ![r.id] = NoRow]
      [] r.op = "delete_project" ->
           [t \in TaskIds |-> IF tasks[t].project_id = r.id THEN NoRow ELSE tasks[t]]
      [] OTHER -> tasks

StoredProjects(r) ==
    CASE r.op = "create_project" -> projects \cup {r.id}
      [] r.op = "delete_project" -> projects \ {r.id}
      [] OTHER -> projects

\* what a finished request leaves to look at
Finished(r, outcome) ==
    [op |-> r.op, id |-> r.id, outcome |-> outcome, broadcasts |-> Len(r.events)]

\* await db.flush() (and the refresh after it) returns, or raises and the
\* exception leaves the handler
Flush(ok) ==
    /\ req.pc = "flush"
    /\ IF ok
       THEN /\ tasks' = Stored(req)
            /\ projects' = StoredProjects(req)
            /\ req' = [req EXCEPT !.pc = "broadcast", !.flushed = TRUE]
            /\ UNCHANGED lastOp
       ELSE /\ lastOp' = Finished(req, "flush failed")
            /\ req' = NoReq
            /\ UNCHANGED <<tasks, projects>>
    /\ UNCHANGED <<now>>

\* await manager.broadcast(...) of the handler in flight.  No connection is
\* registered while handlers are looked at, so the call returns at once.
HandlerBroadcast ==
    /\ req.pc = "broadcast"
    /\ Broadcast(1, EventOf(req))
    /\ req' = [req EXCEPT !.pc = "return", !.events = Append(@, EventOf(req))]
    /\ UNCHANGED <<tasks, projects, now, lastOp, wsPc, sent, gone, issued, inbound, ended>>

\* the handler returned and the session of get_db ends: what db.delete left
\* pending is written (ok) or the write fails
SessionEnd(ok) ==
    /\ req.pc = "return"
    /\ ~ok => ~req.flushed
    /\ tasks' = IF ok THEN Stored(req) ELSE tasks
    /\ projects' = IF ok THEN StoredProjects(req) ELSE projects
    /\ lastOp' = Finished(req, IF ok THEN "ok" ELSE "delete failed")
    /\ req' = NoReq
    /\ UNCHANGED <<now>>

\* time passes between two requests (a handler reads the clock once, before
\* its first await, so time passing during a request changes nothing)
Tick ==
    /\ req.pc = "idle"
    /\ now < MaxTime
    /\ now' = now + 1
    /\ UNCHANGED <<tasks, projects, req, lastOp>>

InitDb ==
    /\ tasks = [t \in TaskIds |-> NoRow]
    /\ projects = {}
    /\ now = 1
    /\ req = NoReq
    /\ lastOp = NoOp

\* ---- specifications -----------------------------------------------------

Init == InitWs /\ InitDb

\* the steps of the connection loops and of the broadcasting threads
DoConnect == (\E c \in Conns : Connect(c)) /\ UNCHANGED dbVars
DoConnectRefused == (\E c \in Conns : ConnectRefused(c)) /\ UNCHANGED dbVars
DoSendPersonalDone ==
    (\E c \in Conns, ok \in BOOLEAN : SendPersonalDone(c, ok)) /\ UNCHANGED dbVars
DoReceiveText ==
    (\E c \in Conns, text \in Inbound : ReceiveText(c, text)) /\ UNCHANGED dbVars
DoReceiveTimeout == (\E c \in Conns : ReceiveTimeout(c)) /\ UNCHANGED dbVars
DoReceiveRaises ==
    (\E c \in Conns, exc \in {"WebSocketDisconnect", "Exception"} : ReceiveRaises(c, exc))
    /\ UNCHANGED dbVars
DoDispatch == (\E h \in Threads : Dispatch(h)) /\ UNCHANGED dbVars
DoDispatchOther == Dispatch(2) /\ UNCHANGED dbVars
DoBroadcastSendDone ==
    (\E h \in Threads, ok \in BOOLEAN : BroadcastSendDone(h, ok)) /\ UNCHANGED dbVars

\* the registry under broadcasts: connections open, are acknowledged, close
\* or break, while the two threads broadcast
Next ==
    \/ DoConnect
    \/ DoConnectRefused
    \/ DoSendPersonalDone
    \/ DoReceiveRaises
    \/ DoDispatch
    \/ DoBroadcastSendDone

Spec == Init /\ [][Next]_vars

\* the receive loops: the clients also send texts or stay silent, while
\* thread 2 makes its broadcast
NextLoop ==
    \/ DoConnect
    \/ DoConnectRefused
    \/ DoSendPersonalDone
    \/ DoReceiveText
    \/ DoReceiveTimeout
    \/ DoReceiveRaises
    \/ DoDispatchOther
    \/ DoBroadcastSendDone

SpecLoop == Init /\ [][NextLoop]_vars

\* the request handlers, one request at a time, with no client connected
DoCreateTask ==
    (\E id \in TaskIds, p \in ProjectIds, parent \in Parents, title \in OneTitle,
        s \in Statuses, pos \in Positions :
        CreateTask(id, p, parent, title, s, pos)) /\ UNCHANGED wsVars
DoUpdateTask ==
    (\E id \in TaskIds, title \in OneTitle \cup {Unset}, s \in Statuses \cup {Unset},
        pos \in Positions \cup {NoPosition} :
        UpdateTask(id, title, s, pos)) /\ UNCHANGED wsVars
DoMoveTask ==
    (\E id \in TaskIds, s \in Statuses, pos \in Positions : MoveTask(id, s, pos))
    /\ UNCHANGED wsVars
DoDeleteTask == (\E id \in TaskIds : DeleteTask(id)) /\ UNCHANGED wsVars
DoCreateProject == (\E id \in ProjectIds : CreateProject(id)) /\ UNCHANGED wsVars
DoUpdateProject == (\E id \in ProjectIds : UpdateProject(id)) /\ UNCHANGED wsVars
DoDeleteProject == (\E id \in ProjectIds : DeleteProject(id)) /\ UNCHANGED wsVars
DoFlush == (\E ok \in BOOLEAN : Flush(ok)) /\ UNCHANGED wsVars
DoSessionEnd == (\E ok \in BOOLEAN : SessionEnd(ok)) /\ UNCHANGED wsVars
DoTick == Tick /\ UNCHANGED wsVars

NextTasks ==
    \/ DoCreateTask
    \/ DoUpdateTask
    \/ DoMoveTask
    \/ DoDeleteTask
    \/ DoCreateProject
    \/ DoUpdateProject
    \/ DoDeleteProject
    \/ DoFlush
    \/ HandlerBroadcast
    \/ DoSessionEnd
    \/ DoTick

SpecTasks == Init /\ [][NextTasks]_vars

\* tasks of two projects and of different titles are created, with and
\* without a parent, and moved
DoCreateProjectBoth == (\E id \in BothProjects : CreateProject(id)) /\ UNCHANGED wsVars
DoCreateTaskBoth ==
    (\E id \in TaskIds, p \in BothProjects, parent \in Parents, title \in Titles,
        s \in Statuses, pos \in Positions :
        CreateTask(id, p, parent, title, s, pos)) /\ UNCHANGED wsVars

NextCreate ==
    \/ DoCreateProjectBoth
    \/ DoCreateTaskBoth
    \/ DoMoveTask
    \/ DoFlush
    \/ HandlerBroadcast
    \/ DoSessionEnd

SpecCreate == Init /\ [][NextCreate]_vars

\* the manager used directly: connect and disconnect are called with any
\* socket in any order, no websocket_endpoint runs, and thread 2 makes its
\* broadcast
DoManagerConnect ==
    (\E c \in Conns, ok \in BOOLEAN : ManagerConnect(c, ok)) /\ UNCHANGED dbVars
DoManagerDisconnect == (\E c \in Conns : ManagerDisconnect(c)) /\ UNCHANGED dbVars

NextRegistry ==
    \/ DoManagerConnect
    \/ DoManagerDisconnect
    \/ DoDispatchOther
    \/ DoBroadcastSendDone

SpecRegistry == Init /\ [][NextRegistry]_vars

\* ---- properties ---------------------------------------------------------

Count(log, message) == Cardinality({i \in 1..Len(log) : log[i] = message})

Consistent(row) == (row.completed_at # Null) <=> (row.status = DONE)

\* the request in flight has written its change to the store
Written(op) == req.op = op /\ req.pc \in {"broadcast", "return"}

\* C1: after every update_task or move_task, applied to a task whose
\* completed_at was non-null exactly when its status was DONE, completed_at is
\* again non-null if and only if the status is DONE.
C1_CompletedIffDone ==
    \A op \in {"update_task", "move_task"} :
        (Written(op) /\ Consistent(req.old)) => Consistent(tasks[req.id])

\* C2: a broadcast during which nobody else changed the list attempted every
\* connection of the list once and in order, delivered its event exactly once
\* to each connection whose send did not fail and to none whose send failed,
\* left registered exactly the connections whose send did not fail, and, when
\* it followed an undisturbed broadcast with no change of the list in between,
\* attempted exactly that broadcast's survivors.
C2_BroadcastIsolatesFailures ==
    (report.pc = "done" /\ ~report.interfered) =>
        /\ report.attempted = report.start
        /\ \A c \in Range(report.start) \ report.failed : Count(sent[c], report.ev) = 1
        /\ \A c \in report.failed : Count(sent[c], report.ev) = 0
        /\ Range(active_connections) = Range(report.start) \ report.failed
        /\ report.follow.valid => Range(report.attempted) = report.follow.survivors

\* a broadcast that followed one with a failed send, and reached a survivor
C2_Witness ==
    /\ report.pc = "done"
    /\ ~report.interfered
    /\ report.follow.valid
    /\ report.follow.dropped # {}
    /\ report.attempted # <<>>
    /\ report.failed = {}

\* C3: a broadcast attempts a send to every connection that was registered
\* when it was called and stayed registered until its iteration ended,
\* whatever was registered or unregistered meanwhile.
C3_NoConnectionSkipped ==
    report.pc = "done" => report.stable \subseteq Range(report.attempted)

\* C4: an event is handed to broadcast only by a request whose change has
\* been written to the store, and a request whose write failed has made no
\* broadcast.
C4_BroadcastAfterPersistence ==
    /\ req.events # <<>> => req.flushed
    /\ lastOp.outcome \in {"flush failed", "delete failed"} => lastOp.broadcasts = 0

WellFormed(text) == IsJson(text) /\ IsObject(text) /\ TypeOf(text) \in {"ping", "subscribe"}

\* C5: a received text that is not a well-formed control message is ignored:
\* the loop waits for the next text, the connection stays registered and
\* nothing is sent to it.
C5_MalformedIgnored ==
    [][\A c \in Conns, text \in Inbound :
          (ReceiveText(c, text) /\ ~WellFormed(text)) =>
              /\ wsPc'[c] = "recv"
              /\ c \in Range(active_connections) => c \in Range(active_connections')
              /\ sent'[c] = sent[c]]_vars

\* C6: a connection whose handler has returned is not in the list, and a
\* handler returns at most once.
C6_EndedIsUnregistered ==
    \A c \in Conns :
        /\ wsPc[c] = "ended" => c \notin Range(active_connections)
        /\ ended[c] <= 1

\* a connection that was acknowledged has ended while the other is registered
C6_Witness ==
    \E c \in Conns :
        /\ wsPc[c] = "ended"
        /\ ended[c] = 1
        /\ sent[c] # <<>>
        /\ active_connections # <<>>

\* C7: when a send of the loop (connected, pong, subscribed or ping) fails,
\* the handler ends and the connection is unregistered; it does not wait for
\* another text.
C7_SendFailureEndsLoop ==
    [][\A c \in Conns :
          SendPersonalDone(c, FALSE) =>
              /\ wsPc'[c] = "ended"
              /\ c \notin Range(active_connections')]_vars

\* C8: once move_task has written its change, completed_at is the time of
\* the move when the new status is DONE and the old one was not, null when
\* the new status is not DONE, and what it was when both are DONE.
C8_MoveCompletedAt ==
    Written("move_task") =>
        LET old == req.old
            new == tasks[req.id]
        IN /\ new.status = req.status
           /\ (req.status = DONE /\ old.status # DONE) => new.completed_at = req.time
           /\ req.status # DONE => new.completed_at = Null
           /\ (req.status = DONE /\ old.status = DONE) =>
                  new.completed_at = old.completed_at

\* a DONE task, completed earlier, was moved to DONE
C8_Witness ==
    /\ Written("move_task")
    /\ req.old.status = DONE
    /\ req.status = DONE
    /\ req.old.completed_at # Null
    /\ req.old.completed_at # req.time

\* C9: once update_task with a status among its fields has written its
\* change, completed_at is the time of the update when the new status is DONE
\* and null when it is not.
C9_UpdateCompletedAt ==
    (Written("update_task") /\ req.status # Unset) =>
        /\ req.status = DONE => tasks[req.id].completed_at = req.time
        /\ req.status # DONE => tasks[req.id].completed_at = Null

IsEvent(message, h) == message.type = "event" /\ message.h = h

\* C10: in what a connection received, the events of one thread stand in the
\* order of that thread's calls.
C10_PerThreadOrder ==
    \A c \in Conns, h \in Threads :
        \A i, j \in 1..Len(sent[c]) :
            (i < j /\ IsEvent(sent[c][i], h) /\ IsEvent(sent[c][j], h)) =>
                sent[c][i].k < sent[c][j].k

\* a connection received both events of thread 1 and thread 2's between them
C10_Witness ==
    \E c \in Conns :
        \E i, j, l \in 1..Len(sent[c]) :
            /\ i < j /\ j < l
            /\ sent[c][i] = [type |-> "event", h |-> 1, k |-> 1]
            /\ sent[c][j] = [type |-> "event", h |-> 2, k |-> 1]
            /\ sent[c][l] = [type |-> "event", h |-> 1, k |-> 2]

\* C11: no register or unregister takes effect during a broadcast's iteration:
\* whenever a broadcast goes on from one send attempt to the next, nobody else
\* has changed the list since its first attempt.
C11_MutationExcludesIteration ==
    [][\A h \in Threads :
          (bc[h].pc = "send" /\ bc'[h].pc = "send" /\ bc'[h].idx > bc[h].idx) =>
              ~bc[h].interfered]_vars

\* an event stands at most once in what a connection received
NoDuplicateDelivery ==
    \A c \in Conns : \A i, j \in 1..Len(sent[c]) : sent[c][i] = sent[c][j] => i = j

\* C12: whatever was registered before, twice included, a broadcast delivers
\* an event at most once to a connection, and a connection is not in the list
\* once disconnect was called with it.
C12_TwiceRegisteredOnceUnregistered ==
    /\ []NoDuplicateDelivery
    /\ [][\A c \in Conns :
             ManagerDisconnect(c) => c \notin Range(active_connections')]_vars

\* disconnect of a socket that is not in the list leaves the list as it is,
\* and a second disconnect changes nothing after the first
DisconnectIsIdempotent ==
    \A c \in Conns :
        LET once == Disconnect(active_connections, c)
        IN /\ c \notin Range(active_connections) => once = active_connections
           /\ Disconnect(once, c) = once

\* C13: disconnect of a socket that is not in the list, never registered or
\* removed already, changes nothing and lets the caller go on (the handler
\* that ends on a socket already removed returns as usual), and disconnect
\* applied twice leaves the list that one disconnect leaves.
C13_DisconnectAbsentIsNoOp ==
    /\ []DisconnectIsIdempotent
    /\ [][\A c \in Conns, exc \in {"WebSocketDisconnect", "Exception"} :
             (ReceiveRaises(c, exc) /\ c \notin Range(active_connections)) =>
                 /\ active_connections' = active_connections
                 /\ wsPc'[c] = "ended"]_vars

\* a socket was removed after a failed send and its handler has ended, so
\* disconnect was called again on it, while the other socket is registered
C13_Witness ==
    \E c, d \in Conns :
        /\ c # d
        /\ wsPc[c] = "ended"
        /\ gone[c]
        /\ d \in Range(active_connections)
        /\ \A h \in Threads : bc[h].pc = "idle"

\* C14: send_personal delivers its message to the given connection and to no
\* other; when the send fails it removes that connection from the list and no
\* other; and in both cases it returns to its caller, which goes on to wait
\* for a text.
C14_SendPersonalOnlyThatConnection ==
    [][\A c \in Conns, ok \in BOOLEAN :
          SendPersonalDone(c, ok) =>
              /\ \A d \in Conns \ {c} :
                     sent'[d] = sent[d] /\ gone'[d] = gone[d] /\ wsPc'[d] = wsPc[d]
              /\ sent'[c] = IF ok THEN Append(sent[c], Pending(wsPc[c])) ELSE sent[c]
              /\ active_connections' =
                     IF ok THEN active_connections
                     ELSE SelectSeq(active_connections, LAMBDA x : x # c)
              /\ wsPc'[c] = "recv"]_vars

\* the acknowledgement of one connection failed and removed it, while the
\* other connection was acknowledged and is registered
C14_Witness ==
    \E c, d \in Conns :
        /\ c # d
        /\ wsPc[c] = "recv" /\ gone[c] /\ sent[c] = <<>>
        /\ c \notin Range(active_connections)
        /\ wsPc[d] = "recv" /\ sent[d] # <<>>
        /\ d \in Range(active_connections)

\* C15: a receive that times out makes the loop send one ping, a received
\* {type: ping} makes it send one pong, each by one send_personal that is not
\* repeated whether it succeeds or fails; nothing else makes the loop send a
\* ping or a pong, and no ping or pong reaches the client in another way.
C15_KeepaliveAndPong ==
    [][\A c \in Conns :
          /\ ReceiveTimeout(c) => wsPc'[c] = "ping"
          /\ ReceiveText(c, "{type:ping}") => wsPc'[c] = "pong"
          /\ (wsPc'[c] = "ping" /\ wsPc[c] # "ping") => ReceiveTimeout(c)
          /\ (wsPc'[c] = "pong" /\ wsPc[c] # "pong") => ReceiveText(c, "{type:ping}")
          /\ \A type \in {"ping", "pong"} :
                 LET before == Count(sent[c], Reply(type))
                     after == Count(sent'[c], Reply(type))
                 IN IF wsPc[c] = type /\ wsPc'[c] # type
                    THEN /\ wsPc'[c] = "recv"
                         /\ after = before + (IF gone'[c] THEN 0 ELSE 1)
                    ELSE after = before]_vars

\* one connection stayed silent and received its ping, the other sent
\* {type: ping} and received its pong
C15_Witness ==
    \E c, d \in Conns :
        /\ c # d
        /\ wsPc[c] = "recv" /\ Count(sent[c], Reply("ping")) = 1
        /\ wsPc[d] = "recv" /\ Count(sent[d], Reply("pong")) = 1

\* C16: a move_task that returns has handed to broadcast exactly one event,
\* a task_moved with the task's id, project_id and title, the status the task
\* had before the move as old_status, and the requested status and position
\* as new_status and position; so also when the task had them already.
C16_MoveBroadcastsTaskMoved ==
    /\ (req.op = "move_task" /\ req.pc = "return") =>
           req.events = <<[type |-> "task_moved", id |-> req.id,
                           project_id |-> req.old.project_id,
                           title |-> req.old.title,
                           old_status |-> req.old.status,
                           new_status |-> req.status,
                           position |-> req.position]>>
    /\ (lastOp.op = "move_task" /\ lastOp.outcome = "ok") => lastOp.broadcasts = 1

\* a task was moved to the status and position it had, and the event is out
C16_Witness ==
    /\ req.op = "move_task"
    /\ req.pc = "return"
    /\ req.old.status = req.status
    /\ req.old.position = req.position
    /\ req.old.title = "b"
    /\ Len(req.events) = 1

\* the request ended with the not-found error, stored nothing and made no
\* broadcast
NotFound(op, id) ==
    /\ lastOp' = [op |-> op, id |-> id, outcome |-> "404", broadcasts |-> 0]
    /\ tasks' = tasks
    /\ projects' = projects
    /\ req'.pc = "idle"
    /\ req'.events = <<>>

\* C17: update_task, delete_task and move_task on a task id that is not
\* stored, and update_project and delete_project on a project id that is not
\* stored, end with the not-found error, change no stored task or project and
\* make no broadcast.
C17_AbsentIdIsNotFound ==
    [][/\ \A id \in TaskIds :
             tasks[id] = NoRow =>
                 /\ (\E title \in OneTitle \cup {Unset}, s \in Statuses \cup {Unset},
                         pos \in Positions \cup {NoPosition} :
                         UpdateTask(id, title, s, pos)) => NotFound("update_task", id)
                 /\ (\E s \in Statuses, pos \in Positions : MoveTask(id, s, pos)) =>
                        NotFound("move_task", id)
                 /\ DeleteTask(id) => NotFound("delete_task", id)
       /\ \A id \in ProjectIds :
             id \notin projects =>
                 /\ UpdateProject(id) => NotFound("update_project", id)
                 /\ DeleteProject(id) => NotFound("delete_project", id)]_vars

\* with a project stored, a move of a task id that is not stored has ended
\* with not found
C17_Witness ==
    /\ lastOp = [op |-> "move_task", id |-> 1, outcome |-> "404", broadcasts |-> 0]
    /\ tasks[1] = NoRow
    /\ projects # {}
    /\ now > 1

\* C18: a create_task that declared a parent id has stored its task, and goes
\* on to broadcast task_created, only if the parent is a stored task of the
\* same project.
C18_InvalidParentRejected ==
    (Written("create_task") /\ req.parent # NoParent) =>
        ParentFound(req.parent, req.obj.project_id)

\* C19: for every stored task and every target status, update_task with that
\* status and move_task with that status and the task's position leave the
\* task with the same status and the same completed_at.
C19_UpdateAndMoveAgree ==
    \A id \in TaskIds, s \in Statuses :
        tasks[id] # NoRow =>
            LET updated == UpdatedRow(tasks[id], Unset, s, NoPosition, now)
                moved == MovedRow(tasks[id], s, tasks[id].position, now)
            IN /\ updated.status = moved.status
               /\ updated.completed_at = moved.completed_at

\* C20: what a connection receives begins with the connected
\* acknowledgement: no broadcast has begun a send to a connection whose
\* acknowledgement has not been handed to the transport, and while the
\* acknowledgement is pending nothing has been delivered to the connection,
\* although the connection is in the list by then.
C20_AckIsFirst ==
    \A c \in Conns :
        /\ sent[c] # <<>> => sent[c][1] = Reply("connected")
        /\ wsPc[c] = "ack" => sent[c] = <<>>
        /\ wsPc[c] \in {"new", "refused"} =>
               /\ c \notin Range(active_connections)
               /\ \A h \in Threads : c \notin Range(bc[h].attempted)

\* a broadcast is suspended in its send to a registered connection whose
\* acknowledgement is still pending
C20_Witness ==
    \E c \in Conns, h \in Threads :
        /\ wsPc[c] = "ack"
        /\ c \in Range(active_connections)
        /\ bc[h].pc = "send"
        /\ bc[h].cur = c

====
